---- MODULE Spec2Model ----
(***************************************************************************)
(* Model of jenkins-job-health-exporter (src/src/main.rs).                 *)
(*                                                                         *)
(* Two specifications share this module:                                   *)
(*   CalcSpec  the pure function calc_metrics applied to bounded inputs;   *)
(*   Spec      the process: gauge registration, the main loop with its     *)
(*             fetch thread, the publish step under the exporter's update  *)
(*             guard, and the exporter's request-serving thread.           *)
(***************************************************************************)
EXTENDS Integers, Sequences, FiniteSets, TLC

(***************************************************************************)
(* Bounds of the model.                                                    *)
(***************************************************************************)
\* longest history handed to calc_metrics in CalcSpec
MaxLen == 3
\* largest window size (opts.last_builds) in CalcSpec
MaxWindow == 3
\* number of poll cycles the main loop is followed for
MaxCycles == 2

(***************************************************************************)
(* Data: OneBuild.result is Option<String>; only this field is read.       *)
(***************************************************************************)
\* OneBuild.result = None
None == "<None>"

\* values of OneBuild.result the model draws from: the three counted labels,
\* another Jenkins label, a differently-cased label and None
Results == {"SUCCESS", "FAILURE", "UNSTABLE", "ABORTED", "success", None}

\* let statuses = vec!["success", "failure", "unstable"];
statuses == <<"success", "failure", "unstable">>

\* str::to_uppercase on the strings the model uses
to_uppercase(s) ==
    CASE s = "success" -> "SUCCESS"
      [] s = "failure" -> "FAILURE"
      [] s = "unstable" -> "UNSTABLE"
      [] OTHER -> s

\* Result<AllBuilds, MyError>: is_err, and the builds' results when Ok
Err == [is_err |-> TRUE, builds |-> <<>>]
Ok(b) == [is_err |-> FALSE, builds |-> b]

RECURSIVE SeqsUpTo(_, _)
\* all sequences over S of length at most n
SeqsUpTo(S, n) ==
    IF n = 0 THEN {<<>>}
    ELSE LET shorter == SeqsUpTo(S, n - 1)
         IN shorter \cup {Append(s, x) : s \in {t \in shorter : Len(t) = n - 1}, x \in S}

(***************************************************************************)
(* calc_metrics                                                            *)
(***************************************************************************)
\* slice::windows(size): every contiguous sub-slice of length size, in order
\* (empty when the slice is shorter); size = 0 panics and is handled by
\* calc_metrics_panics below
windows(s, size) ==
    [i \in 1..(IF Len(s) >= size THEN Len(s) - size + 1 ELSE 0) |->
        SubSeq(s, i, i + size - 1)]

\* Iterator::nth(0): the first item, if any
nth0_is_none(it) == Len(it) = 0
nth0(it) == it[1]

\* .iter().filter(|x| x.result == Some(st.to_uppercase())).count()
filter_count(last_n, st) ==
    Cardinality({i \in 1..Len(last_n) : last_n[i] # None /\ last_n[i] = to_uppercase(st)})

\* the map calc_metrics starts from: total and every status at 0
zero_out == [k \in {"total"} \cup {statuses[i] : i \in 1..Len(statuses)} |-> 0]

\* slice::windows panics when size is 0; reached only when data is Ok
calc_metrics_panics(data, try_total) == ~data.is_err /\ try_total = 0

\* mutant: the trailing window is taken only when it exists, but total is
\* the length of the whole history
calc_metrics_total_all(data, try_total) ==
    IF data.is_err THEN zero_out
    ELSE LET w == windows(data.builds, try_total)
         IN IF nth0_is_none(w) THEN zero_out
            ELSE LET last_n == nth0(w)
                 IN [k \in DOMAIN zero_out |->
                        IF k = "total" THEN Len(data.builds) ELSE filter_count(last_n, k)]

\* mutant: no early return when the history is shorter than the window
calc_metrics_short(data, try_total) ==
    IF data.is_err THEN zero_out
    ELSE LET last_n == SubSeq(data.builds, 1,
                              IF Len(data.builds) < try_total THEN Len(data.builds) ELSE try_total)
         IN [k \in DOMAIN zero_out |->
                IF k = "total" THEN Len(last_n) ELSE filter_count(last_n, k)]

\* calc_metrics(data, try_total, verbose), for inputs on which it returns
calc_metrics(data, try_total) ==
    IF data.is_err THEN zero_out
    ELSE LET w == windows(data.builds, try_total)
         IN IF nth0_is_none(w) THEN zero_out
            ELSE LET last_n == nth0(w)
                 IN [k \in DOMAIN zero_out |->
                        IF k = "total" THEN Len(last_n) ELSE filter_count(last_n, k)]

(***************************************************************************)
(* Configuration and the values the environment can supply.                *)
(***************************************************************************)
\* let gauge_info = vec![("total", ..), ("success", ..), ("failure", ..),
\*                       ("unstable", ..), ("job_reqtime_ms", ..)];
gauge_info == <<"total", "success", "failure", "unstable", "job_reqtime_ms">>

\* opts.jobs: one job, two jobs, and two jobs whose metric names collide
JobLists == {<<"alpha">>, <<"alpha", "beta-1">>, <<"beta-1", "beta_1">>}

\* opts.last_builds (usize) in the process model
LastBuildsChoices == {0, 1, 2}

\* opts.poll_interval_sec, default_value = "1800"
poll_interval_sec == 1800

\* job.clone().replace("-", "_") on the job names the model uses
metric_name(job) ==
    CASE job = "beta-1" -> "beta_1"
      [] OTHER -> job

\* format!("{}_{}", &metric_name, gauge_name), as the pair of its arguments
gauge_metric(job, gauge_name) == <<metric_name(job), gauge_name>>

\* what get_job_builds can return: an error, or the builds of the response
FetchHistories ==
    {<<"SUCCESS">>, <<"FAILURE", "SUCCESS">>, <<"SUCCESS", "UNSTABLE", None>>}

\* HTTP status codes a job server's response can carry: success and not
StatusCodes == {200, 503}

\* what the request of get_job_builds can meet: send() fails (network
\* failure, timeout), or a response arrives with a status code and a body
\* that response.json::<AllBuilds>() can decode (to builds) or not
HttpOutcomesOver(histories) ==
    {[sent |-> FALSE, status |-> 0, json_ok |-> FALSE, builds |-> <<>>]}
    \cup {[sent |-> TRUE, status |-> st, json_ok |-> FALSE, builds |-> <<>>] :
             st \in StatusCodes}
    \cup {[sent |-> TRUE, status |-> st, json_ok |-> TRUE, builds |-> h] :
             st \in StatusCodes, h \in histories}

\* the outcomes the process model draws from
HttpOutcomes == HttpOutcomesOver(FetchHistories)

\* get_job_builds, lines 42-44: `?` on send(), `?` on json(), Ok(result);
\* the status code of the response is not looked at
get_job_builds(http) ==
    IF ~http.sent THEN Err
    ELSE IF ~http.json_ok THEN Err
    ELSE Ok(http.builds)

FetchResponses == {get_job_builds(http) : http \in HttpOutcomes}

\* now.elapsed(): milliseconds as i64, or -1 when the clock read fails
ElapsedMs == {-1, 12}

\* AllGaugeData { ..Default::default() }
default_AllGaugeData == [gauges |-> <<>>, req_counter |-> 0, req_err_counter |-> 0]

\* HashMap::insert
insert(m, k, v) == (k :> v) @@ m

(***************************************************************************)
(* State.                                                                  *)
(***************************************************************************)
VARIABLES
    c_pc,            \* CalcSpec: "input", "returned" or "panicked"
    c_data,          \* CalcSpec: the data argument of calc_metrics
    c_try_total,     \* CalcSpec: the try_total argument of calc_metrics
    c_out,           \* CalcSpec: the map calc_metrics returned
    f_pc,            \* FetchSpec: "input", "inserted" or "panicked"
    f_http,          \* FetchSpec: what the request of get_job_builds met
    f_last_builds,   \* FetchSpec: opts.last_builds
    f_elapsed,       \* FetchSpec: the elapsed time measured for the request
    f_out,           \* FetchSpec: `out` after the iteration for the job
    opts,            \* the configuration: jobs, last_builds
    main_pc,         \* position of the main thread
    job_i,           \* index of `for job in &opts.jobs` in main
    gauge_i,         \* index of `for (gauge_name, _) in &gauge_info` in main
    registry,        \* gauge metric names registered in the default registry
    gauges,          \* main's gauges: job -> gauge name -> value of the gauge
    poll_counter,    \* poll_cycle_counter
    req_counter,     \* req_counter
    req_err_counter, \* req_err_counter
    wait_sec,        \* main's wait_sec
    handle,          \* the fetch thread: pc, loop index, its `out`; history:
                     \* the responses it got so far (responses), the cycle
                     \* it belongs to, the number of Err responses over all
                     \* cycles (failed)
    new_data,        \* main's new_data, the snapshot joined from the thread
    update_lock,     \* the exporter's update lock: "free", "main", "server"
    s_pc,            \* the exporter's server thread: "idle", "waiting", "serving"
    observed,        \* the gauge values the request being served has read
    prev_data        \* history: the snapshot published by the previous cycle

calc_vars == <<c_pc, c_data, c_try_total, c_out,
               f_pc, f_http, f_last_builds, f_elapsed, f_out>>
main_vars == <<opts, main_pc, job_i, gauge_i, registry, gauges, poll_counter,
               req_counter, req_err_counter, wait_sec, handle, new_data,
               update_lock, s_pc, observed, prev_data>>
vars == <<c_pc, c_data, c_try_total, c_out,
          f_pc, f_http, f_last_builds, f_elapsed, f_out, opts, main_pc, job_i, gauge_i,
          registry, gauges, poll_counter, req_counter, req_err_counter,
          wait_sec, handle, new_data, update_lock, s_pc, observed, prev_data>>

\* the fetch thread of cycle c with nothing in hand: before the first spawn
\* (pc "none"), freshly spawned (pc "running") and after its value was moved
\* out by join (pc "joined")
idle_thread(pc, c) ==
    [pc |-> pc, i |-> 1, out |-> default_AllGaugeData, responses |-> <<>>, cycle |-> c,
     failed |-> 0]

\* the process right after prometheus_exporter::start and the registration
\* of the three counters, for a configuration o (registry holds the gauge
\* metric names only: no gauge name ends in "counter")
MainStart(o) ==
    /\ opts = o
    /\ main_pc = "register"
    /\ job_i = 1
    /\ gauge_i = 1
    /\ registry = {}
    /\ gauges = <<>>
    /\ poll_counter = 0
    /\ req_counter = 0
    /\ req_err_counter = 0
    /\ wait_sec = 0
    /\ handle = idle_thread("none", 0)
    /\ new_data = default_AllGaugeData
    /\ update_lock = "free"
    /\ s_pc = "idle"
    /\ observed = <<>>
    /\ prev_data = default_AllGaugeData

\* the calc_metrics variables when another specification runs
CalcIdle ==
    /\ c_pc = "idle"
    /\ c_data = Err
    /\ c_try_total = 0
    /\ c_out = zero_out

(***************************************************************************)
(* CalcSpec: calc_metrics on every input within the bounds.                *)
(***************************************************************************)
CalcInputs == {Err} \cup {Ok(h) : h \in SeqsUpTo(Results, MaxLen)}

\* the FetchSpec variables when another specification runs
FetchIdle ==
    /\ f_pc = "idle"
    /\ f_http = [sent |-> FALSE, status |-> 0, json_ok |-> FALSE, builds |-> <<>>]
    /\ f_last_builds = 0
    /\ f_elapsed = 0
    /\ f_out = default_AllGaugeData

CalcInit ==
    /\ c_pc = "input"
    /\ c_data \in CalcInputs
    /\ c_try_total \in 0..MaxWindow
    /\ c_out = <<>>
    /\ FetchIdle
    /\ MainStart([jobs |-> <<"alpha">>, last_builds |-> 0])

\* calc_metrics returns its map
CalcReturn ==
    /\ c_pc = "input"
    /\ ~calc_metrics_panics(c_data, c_try_total)
    /\ c_out' = calc_metrics(c_data, c_try_total)
    /\ c_pc' = "returned"
    /\ UNCHANGED <<c_data, c_try_total>>
    /\ UNCHANGED <<f_pc, f_http, f_last_builds, f_elapsed, f_out>>
    /\ UNCHANGED main_vars

\* data.builds.windows(0) panics
CalcPanic ==
    /\ c_pc = "input"
    /\ calc_metrics_panics(c_data, c_try_total)
    /\ c_pc' = "panicked"
    /\ UNCHANGED <<c_data, c_try_total, c_out>>
    /\ UNCHANGED <<f_pc, f_http, f_last_builds, f_elapsed, f_out>>
    /\ UNCHANGED main_vars

CalcNext == CalcReturn \/ CalcPanic

CalcSpec == CalcInit /\ [][CalcNext]_vars

(***************************************************************************)
(* Spec: the process.                                                      *)
(***************************************************************************)
Init ==
    /\ CalcIdle
    /\ FetchIdle
    /\ \E jobs \in JobLists, last_builds \in LastBuildsChoices :
          MainStart([jobs |-> jobs, last_builds |-> last_builds])

\* the process has not died of a panic
Alive == main_pc # "panicked"

\* main, lines 224-237: one register_int_gauge!(..).unwrap() and its insert
\* into gauges; a metric name registered before makes the unwrap panic
RegisterGauge ==
    /\ main_pc = "register"
    /\ job_i <= Len(opts.jobs)
    /\ LET job == opts.jobs[job_i]
           gauge_name == gauge_info[gauge_i]
           name == gauge_metric(job, gauge_name)
       IN IF name \in registry
          THEN /\ main_pc' = "panicked"
               /\ UNCHANGED <<registry, gauges, job_i, gauge_i>>
          ELSE /\ registry' = registry \cup {name}
               /\ gauges' = insert(gauges, job,
                                   insert(IF job \in DOMAIN gauges THEN gauges[job] ELSE <<>>,
                                          gauge_name, 0))
               /\ IF gauge_i < Len(gauge_info)
                  THEN /\ gauge_i' = gauge_i + 1
                       /\ job_i' = job_i
                  ELSE /\ gauge_i' = 1
                       /\ job_i' = job_i + 1
               /\ main_pc' = IF gauge_i = Len(gauge_info) /\ job_i = Len(opts.jobs)
                             THEN "spawn" ELSE "register"
    /\ UNCHANGED <<opts, poll_counter, req_counter, req_err_counter, wait_sec,
                   handle, new_data, update_lock, s_pc, observed, prev_data>>
    /\ UNCHANGED calc_vars

\* main, lines 241-249: std::thread::spawn of the cycle's fetch thread
Spawn ==
    /\ main_pc = "spawn"
    /\ poll_counter < MaxCycles
    /\ handle' = [idle_thread("running", handle.cycle + 1) EXCEPT !.failed = handle.failed]
    /\ main_pc' = "sleep"
    /\ UNCHANGED <<opts, job_i, gauge_i, registry, gauges, poll_counter, req_counter,
                   req_err_counter, wait_sec, new_data, update_lock, s_pc,
                   observed, prev_data>>
    /\ UNCHANGED calc_vars

\* mutant: a failed request is not counted in req_counter
fetch_step_uncounted(out, job, response, elapsed, last_builds) ==
    [gauges |-> insert(out.gauges, job,
                       insert(calc_metrics(response, last_builds), "job_reqtime_ms", elapsed)),
     req_counter |-> out.req_counter + (IF response.is_err THEN 0 ELSE 1),
     req_err_counter |-> out.req_err_counter + (IF response.is_err THEN 1 ELSE 0)]

\* mutant: a failed request leaves no entry for its job
fetch_step_skip(out, job, response, elapsed, last_builds) ==
    [gauges |-> IF response.is_err THEN out.gauges
                ELSE insert(out.gauges, job,
                            insert(calc_metrics(response, last_builds),
                                   "job_reqtime_ms", elapsed)),
     req_counter |-> out.req_counter + 1,
     req_err_counter |-> out.req_err_counter + (IF response.is_err THEN 1 ELSE 0)]

\* mutant: a failed request zeroes the entries of the jobs fetched before it
fetch_step_zero_all(out, job, response, elapsed, last_builds) ==
    [gauges |-> insert(IF response.is_err
                       THEN [j \in DOMAIN out.gauges |->
                                [k \in DOMAIN out.gauges[j] |->
                                    IF k = "job_reqtime_ms" THEN out.gauges[j][k] ELSE 0]]
                       ELSE out.gauges,
                       job,
                       insert(calc_metrics(response, last_builds), "job_reqtime_ms", elapsed)),
     req_counter |-> out.req_counter + 1,
     req_err_counter |-> out.req_err_counter + (IF response.is_err THEN 1 ELSE 0)]

\* mutant: no request time is inserted when the clock read failed
fetch_step_noreqtime(out, job, response, elapsed, last_builds) ==
    [gauges |-> insert(out.gauges, job,
                       IF elapsed = -1 THEN calc_metrics(response, last_builds)
                       ELSE insert(calc_metrics(response, last_builds),
                                   "job_reqtime_ms", elapsed)),
     req_counter |-> out.req_counter + 1,
     req_err_counter |-> out.req_err_counter + (IF response.is_err THEN 1 ELSE 0)]

\* get_all_gauge_data, lines 141-163: the effect of one iteration on `out`,
\* given the response and the elapsed time of the job's request
fetch_step(out, job, response, elapsed, last_builds) ==
    [gauges |-> insert(out.gauges, job,
                       insert(calc_metrics(response, last_builds), "job_reqtime_ms", elapsed)),
     req_counter |-> out.req_counter + 1,
     req_err_counter |-> out.req_err_counter + (IF response.is_err THEN 1 ELSE 0)]

(***************************************************************************)
(* FetchSpec: one iteration of get_all_gauge_data's loop, for the job      *)
(* "alpha" on a fresh `out`, on every outcome of the request.              *)
(***************************************************************************)
FetchInit ==
    /\ f_pc = "input"
    /\ f_http \in HttpOutcomesOver(SeqsUpTo(Results, MaxLen - 1))
    /\ f_last_builds \in 0..MaxWindow
    /\ f_elapsed \in ElapsedMs
    /\ f_out = default_AllGaugeData
    /\ CalcIdle
    /\ MainStart([jobs |-> <<"alpha">>, last_builds |-> 0])

\* lines 141-163 run to the end of the iteration
FetchOne ==
    /\ f_pc = "input"
    /\ ~calc_metrics_panics(get_job_builds(f_http), f_last_builds)
    /\ f_out' = fetch_step(f_out, "alpha", get_job_builds(f_http), f_elapsed, f_last_builds)
    /\ f_pc' = "inserted"
    /\ UNCHANGED <<f_http, f_last_builds, f_elapsed>>
    /\ UNCHANGED <<c_pc, c_data, c_try_total, c_out>>
    /\ UNCHANGED main_vars

\* calc_metrics at line 154 panics
FetchOnePanic ==
    /\ f_pc = "input"
    /\ calc_metrics_panics(get_job_builds(f_http), f_last_builds)
    /\ f_pc' = "panicked"
    /\ UNCHANGED <<f_http, f_last_builds, f_elapsed, f_out>>
    /\ UNCHANGED <<c_pc, c_data, c_try_total, c_out>>
    /\ UNCHANGED main_vars

FetchNext == FetchOne \/ FetchOnePanic

FetchSpec == FetchInit /\ [][FetchNext]_vars

\* get_all_gauge_data, lines 139-164: one iteration of `for job in &opts.jobs`
\* (the request, its timing, calc_metrics and the two inserts); calc_metrics
\* panicking ends the thread without a value
FetchJob ==
    /\ Alive
    /\ handle.pc = "running"
    /\ handle.i <= Len(opts.jobs)
    /\ \E http \in HttpOutcomes, elapsed \in ElapsedMs :
          LET job == opts.jobs[handle.i]
              out == handle.out
              response == get_job_builds(http)
          IN /\ response \in FetchResponses
             /\ IF calc_metrics_panics(response, opts.last_builds)
                THEN handle' = [handle EXCEPT !.pc = "panicked",
                                              !.responses = Append(handle.responses, response)]
                ELSE handle' =
                       [handle EXCEPT
                          !.i = handle.i + 1,
                          !.out = fetch_step(out, job, response, elapsed, opts.last_builds),
                          !.responses = Append(handle.responses, response),
                          !.failed = handle.failed + (IF response.is_err THEN 1 ELSE 0)]
    /\ UNCHANGED <<opts, main_pc, job_i, gauge_i, registry, gauges, poll_counter,
                   req_counter, req_err_counter, wait_sec, new_data, update_lock,
                   s_pc, observed, prev_data>>
    /\ UNCHANGED calc_vars

\* get_all_gauge_data, line 165, and the closure's return at line 248
FetchReturn ==
    /\ Alive
    /\ handle.pc = "running"
    /\ handle.i > Len(opts.jobs)
    /\ handle' = [handle EXCEPT !.pc = "done"]
    /\ UNCHANGED <<opts, main_pc, job_i, gauge_i, registry, gauges, poll_counter,
                   req_counter, req_err_counter, wait_sec, new_data, update_lock,
                   s_pc, observed, prev_data>>
    /\ UNCHANGED calc_vars

(***************************************************************************)
(* The exporter (prometheus_exporter crate): wait_duration(d) sleeps for d *)
(* and then locks the exporter's update lock, returning the guard; the     *)
(* server thread handles one request at a time and locks the same lock     *)
(* around gathering and encoding the registry, so a request waits while    *)
(* main holds the guard.                                                   *)
(***************************************************************************)
\* exporter.wait_duration, line 251: thread::sleep(wait_sec) has elapsed
Sleep ==
    /\ main_pc = "sleep"
    /\ main_pc' = "lock"
    /\ UNCHANGED <<opts, job_i, gauge_i, registry, gauges, poll_counter, req_counter,
                   req_err_counter, wait_sec, handle, new_data, update_lock, s_pc,
                   observed, prev_data>>
    /\ UNCHANGED calc_vars

\* mutant: main goes on without holding the update lock
WaitDurationLock_noguard ==
    /\ main_pc = "lock"
    /\ main_pc' = "join"
    /\ UNCHANGED <<opts, job_i, gauge_i, registry, gauges, poll_counter, req_counter,
                   req_err_counter, wait_sec, handle, new_data, update_lock, s_pc,
                   observed, prev_data>>
    /\ UNCHANGED calc_vars

\* exporter.wait_duration, line 251: update_lock.lock() returns the guard
WaitDurationLock ==
    /\ main_pc = "lock"
    /\ update_lock = "free"
    /\ update_lock' = "main"
    /\ main_pc' = "join"
    /\ UNCHANGED <<opts, job_i, gauge_i, registry, gauges, poll_counter, req_counter,
                   req_err_counter, wait_sec, handle, new_data, s_pc, observed,
                   prev_data>>
    /\ UNCHANGED calc_vars

\* mutant: the thread's value is taken without waiting for the thread
Join_nowait ==
    /\ main_pc = "join"
    /\ handle.pc \in {"running", "done"}
    /\ new_data' = handle.out
    /\ handle' = IF handle.pc = "done"
                  THEN [idle_thread("joined", handle.cycle) EXCEPT !.failed = handle.failed]
                  ELSE handle
    /\ job_i' = 1
    /\ gauge_i' = 1
    /\ main_pc' = "publish"
    /\ UNCHANGED <<opts, registry, gauges, poll_counter, req_counter, req_err_counter,
                   wait_sec, update_lock, s_pc, observed, prev_data>>
    /\ UNCHANGED calc_vars

\* main, line 252: handle.join().unwrap(); a panicked thread makes it panic
Join ==
    /\ main_pc = "join"
    /\ handle.pc \in {"done", "panicked"}
    /\ IF handle.pc = "panicked"
       THEN /\ main_pc' = "panicked"
            /\ UNCHANGED <<new_data, job_i, gauge_i, handle>>
       ELSE /\ new_data' = handle.out
            /\ handle' = [idle_thread("joined", handle.cycle) EXCEPT !.failed = handle.failed]
            /\ job_i' = 1
            /\ gauge_i' = 1
            /\ main_pc' = "publish"
    /\ UNCHANGED <<opts, registry, gauges, poll_counter, req_counter, req_err_counter,
                   wait_sec, update_lock, s_pc, observed, prev_data>>
    /\ UNCHANGED calc_vars

\* mutant: the request time gauge is not written
set_gauge_skip_reqtime(g, job, gauge_name, d) ==
    IF gauge_name = "job_reqtime_ms" THEN g ELSE [g EXCEPT ![job][gauge_name] = d]

\* mutant: the gauge is added to instead of set
set_gauge_add(g, job, gauge_name, d) ==
    [g EXCEPT ![job][gauge_name] = g[job][gauge_name] + d]

\* mutant: the job's gauge map is replaced by one holding the written gauge
set_gauge_replace(g, job, gauge_name, d) == [g EXCEPT ![job] = (gauge_name :> d)]

\* main, line 266: gauges[job][gauge_name].set(d)
set_gauge(g, job, gauge_name, d) == [g EXCEPT ![job][gauge_name] = d]

RECURSIVE publish(_, _, _, _)
\* main, lines 254-268: the gauges after the first n writes of the publish
\* loops over jobs (outer) and gauge_info (inner), from the gauges g
publish(g, data, jobs, n) ==
    IF n = 0 THEN g
    ELSE LET job == jobs[((n - 1) \div Len(gauge_info)) + 1]
             gauge_name == gauge_info[((n - 1) % Len(gauge_info)) + 1]
         IN set_gauge(publish(g, data, jobs, n - 1), job, gauge_name,
                      data.gauges[job][gauge_name])

\* the key lookups of lines 264 and 266 succeed
lookup_ok(job, gauge_name) ==
    /\ job \in DOMAIN new_data.gauges
    /\ gauge_name \in DOMAIN new_data.gauges[job]
    /\ job \in DOMAIN gauges
    /\ gauge_name \in DOMAIN gauges[job]

\* main, lines 254-268: one gauge write of the publish loops; indexing a
\* missing key panics
PublishGauge ==
    /\ main_pc = "publish"
    /\ job_i <= Len(opts.jobs)
    /\ LET job == opts.jobs[job_i]
           gauge_name == gauge_info[gauge_i]
       IN IF ~lookup_ok(job, gauge_name)
          THEN /\ main_pc' = "panicked"
               /\ UNCHANGED <<gauges, job_i, gauge_i>>
          ELSE /\ gauges' = set_gauge(gauges, job, gauge_name,
                                      new_data.gauges[job][gauge_name])
               /\ IF gauge_i < Len(gauge_info)
                  THEN /\ gauge_i' = gauge_i + 1
                       /\ job_i' = job_i
                  ELSE /\ gauge_i' = 1
                       /\ job_i' = job_i + 1
               /\ main_pc' = IF gauge_i = Len(gauge_info) /\ job_i = Len(opts.jobs)
                             THEN "inc_err" ELSE "publish"
    /\ UNCHANGED <<opts, registry, poll_counter, req_counter, req_err_counter,
                   wait_sec, handle, new_data, update_lock, s_pc, observed, prev_data>>
    /\ UNCHANGED calc_vars

\* mutant: req_err_counter.inc() when the cycle had a failed request
IncReqErrCounter_one ==
    /\ main_pc = "inc_err"
    /\ req_err_counter' = req_err_counter + (IF new_data.req_err_counter > 0 THEN 1 ELSE 0)
    /\ main_pc' = "inc_req"
    /\ UNCHANGED <<opts, job_i, gauge_i, registry, gauges, poll_counter, req_counter,
                   wait_sec, handle, new_data, update_lock, s_pc, observed, prev_data>>
    /\ UNCHANGED calc_vars

\* main, line 269: req_err_counter.inc_by(new_data.req_err_counter)
IncReqErrCounter ==
    /\ main_pc = "inc_err"
    /\ req_err_counter' = req_err_counter + new_data.req_err_counter
    /\ main_pc' = "inc_req"
    /\ UNCHANGED <<opts, job_i, gauge_i, registry, gauges, poll_counter, req_counter,
                   wait_sec, handle, new_data, update_lock, s_pc, observed, prev_data>>
    /\ UNCHANGED calc_vars

\* main, line 270: req_counter.inc_by(new_data.req_counter)
IncReqCounter ==
    /\ main_pc = "inc_req"
    /\ req_counter' = req_counter + new_data.req_counter
    /\ main_pc' = "inc_poll"
    /\ UNCHANGED <<opts, job_i, gauge_i, registry, gauges, poll_counter,
                   req_err_counter, wait_sec, handle, new_data, update_lock, s_pc,
                   observed, prev_data>>
    /\ UNCHANGED calc_vars

\* main, line 272: poll_counter.inc()
IncPollCounter ==
    /\ main_pc = "inc_poll"
    /\ poll_counter' = poll_counter + 1
    /\ main_pc' = "drop"
    /\ UNCHANGED <<opts, job_i, gauge_i, registry, gauges, req_counter,
                   req_err_counter, wait_sec, handle, new_data, update_lock, s_pc,
                   observed, prev_data>>
    /\ UNCHANGED calc_vars

\* main, lines 273-275: drop(guard); wait_sec = opts.poll_interval_sec; the
\* loop body ends and new_data goes out of scope (kept in prev_data)
DropGuard ==
    /\ main_pc = "drop"
    /\ update_lock' = "free"
    /\ wait_sec' = poll_interval_sec
    /\ prev_data' = new_data
    /\ new_data' = default_AllGaugeData
    /\ main_pc' = "spawn"
    /\ UNCHANGED <<opts, job_i, gauge_i, registry, gauges, poll_counter, req_counter,
                   req_err_counter, handle, s_pc, observed>>
    /\ UNCHANGED calc_vars

\* the exporter's server thread receives a scrape request
ScrapeArrive ==
    /\ Alive
    /\ s_pc = "idle"
    /\ s_pc' = "waiting"
    /\ UNCHANGED <<opts, main_pc, job_i, gauge_i, registry, gauges, poll_counter,
                   req_counter, req_err_counter, wait_sec, handle, new_data,
                   update_lock, observed, prev_data>>
    /\ UNCHANGED calc_vars

\* the server thread takes the update lock and gathers the registered gauges
ScrapeServe ==
    /\ Alive
    /\ s_pc = "waiting"
    /\ update_lock = "free"
    /\ update_lock' = "server"
    /\ observed' = gauges
    /\ s_pc' = "serving"
    /\ UNCHANGED <<opts, main_pc, job_i, gauge_i, registry, gauges, poll_counter,
                   req_counter, req_err_counter, wait_sec, handle, new_data, prev_data>>
    /\ UNCHANGED calc_vars

\* the server thread sends the response and releases the update lock
ScrapeRespond ==
    /\ Alive
    /\ s_pc = "serving"
    /\ update_lock' = "free"
    /\ observed' = <<>>
    /\ s_pc' = "idle"
    /\ UNCHANGED <<opts, main_pc, job_i, gauge_i, registry, gauges, poll_counter,
                   req_counter, req_err_counter, wait_sec, handle, new_data, prev_data>>
    /\ UNCHANGED calc_vars

Next ==
    \/ RegisterGauge
    \/ Spawn
    \/ FetchJob
    \/ FetchReturn
    \/ Sleep
    \/ WaitDurationLock
    \/ Join
    \/ PublishGauge
    \/ IncReqErrCounter
    \/ IncReqCounter
    \/ IncPollCounter
    \/ DropGuard
    \/ ScrapeArrive
    \/ ScrapeServe
    \/ ScrapeRespond

Spec == Init /\ [][Next]_vars

(***************************************************************************)
(* Properties of calc_metrics (CalcSpec).                                  *)
(***************************************************************************)
\* number of records of h whose result is exactly label
count_label(h, label) == Cardinality({i \in 1..Len(h) : h[i] = label})

\* the trailing n records of h
trailing(h, n) == SubSeq(h, Len(h) - n + 1, Len(h))

\* calc_metrics was called with an Ok history
CalledOk == c_pc \in {"returned", "panicked"} /\ ~c_data.is_err

\* C1: for a history of at least window_size >= 1 records, total and the
\* success/failure/unstable counts are the counts over the trailing
\* window_size records
C1_TrailingWindow ==
    (CalledOk /\ c_try_total >= 1 /\ Len(c_data.builds) >= c_try_total) =>
        /\ c_pc = "returned"
        /\ c_out["total"] = c_try_total
        /\ c_out["success"] = count_label(trailing(c_data.builds, c_try_total), "SUCCESS")
        /\ c_out["failure"] = count_label(trailing(c_data.builds, c_try_total), "FAILURE")
        /\ c_out["unstable"] = count_label(trailing(c_data.builds, c_try_total), "UNSTABLE")

\* C6: a history shorter than window_size, and a fetch error, give
\* total = success = failure = unstable = 0
C6_ShortOrErrAllZero ==
    (c_pc # "input" /\ (c_data.is_err \/ Len(c_data.builds) < c_try_total)) =>
        /\ c_pc = "returned"
        /\ DOMAIN c_out = {"total", "success", "failure", "unstable"}
        /\ \A k \in DOMAIN c_out : c_out[k] = 0

C6_Witness ==
    /\ c_pc = "returned"
    /\ ~c_data.is_err
    /\ Len(c_data.builds) = 2
    /\ c_try_total = 3
    /\ c_data.builds[1] = "SUCCESS"
    /\ c_out["total"] = 0

\* C7: the returned counts satisfy success + failure + unstable <= total,
\* and total is 0 or window_size
C7_SumAndTotal ==
    c_pc = "returned" =>
        /\ c_out["success"] + c_out["failure"] + c_out["unstable"] <= c_out["total"]
        /\ c_out["total"] \in {0, c_try_total}

C7_Witness ==
    /\ c_pc = "returned"
    /\ Len(c_data.builds) > c_try_total
    /\ c_out["total"] = c_try_total
    /\ c_out["success"] + c_out["failure"] + c_out["unstable"] < c_out["total"]
    /\ c_out["success"] > 0

\* C8: for a history of exactly window_size records calc_metrics returns
\* total = window_size and, per label, the number of records whose result is
\* exactly the upper-case label
C8_ExactWindowCounts ==
    (CalledOk /\ Len(c_data.builds) = c_try_total) =>
        /\ c_pc = "returned"
        /\ c_out["total"] = c_try_total
        /\ c_out["success"] = count_label(c_data.builds, "SUCCESS")
        /\ c_out["failure"] = count_label(c_data.builds, "FAILURE")
        /\ c_out["unstable"] = count_label(c_data.builds, "UNSTABLE")

(***************************************************************************)
(* Properties of the process (Spec).                                       *)
(***************************************************************************)
\* the jobs of the configuration, as a set
JobSet == {opts.jobs[i] : i \in 1..Len(opts.jobs)}

GaugeNames == {gauge_info[i] : i \in 1..Len(gauge_info)}

\* main is between the join and the drop of the guard: the publish step
\* (gauge writes and counter increments) is in progress
Publishing == main_pc \in {"publish", "inc_err", "inc_req", "inc_poll", "drop"}

\* every gauge of every job holds the value snapshot d has for it
GaugesHold(d) ==
    \A job \in JobSet : \A n \in GaugeNames :
        /\ job \in DOMAIN gauges /\ n \in DOMAIN gauges[job]
        /\ job \in DOMAIN d.gauges /\ n \in DOMAIN d.gauges[job]
        /\ gauges[job][n] = d.gauges[job][n]

\* C2: the fetch thread runs only while main waits for it (sleep, lock, join)
\* and never during a publish step; the thread of cycle k+1 runs only once
\* cycle k is published entirely: its counter increments are done and every
\* gauge holds cycle k's value
C2_PublishNeverOverlapsFetch ==
    /\ Publishing => handle.pc \notin {"running", "done", "panicked"}
    /\ handle.pc = "running" =>
          /\ main_pc \in {"sleep", "lock", "join"}
          /\ poll_counter = handle.cycle - 1
          /\ req_counter = (handle.cycle - 1) * Len(opts.jobs)
          /\ handle.cycle > 1 => GaugesHold(prev_data)

C2_Witness ==
    /\ handle.pc = "running"
    /\ handle.cycle = 2
    /\ handle.i = 2
    /\ main_pc = "join"
    /\ Len(opts.jobs) = 2
    /\ prev_data.gauges["alpha"]["total"] = 2

\* C3: a scrape request that arrives while a cycle's fetches are in flight
\* is not kept waiting by main's update guard
C3_ScrapeServedDuringFetch ==
    (handle.pc = "running" /\ s_pc = "waiting") => update_lock # "main"

\* the values completed snapshots hold for a gauge: the previous cycle's
\* snapshot and, once joined, the current one
completed_values(job, n) ==
    {d.gauges[job][n] : d \in {e \in {prev_data, new_data} : job \in DOMAIN e.gauges}}

\* C4 as stated: every value a request reads is the value of a completed
\* snapshot
C4_ObservedIsCompleted ==
    s_pc = "serving" =>
        \A job \in DOMAIN observed : \A n \in DOMAIN observed[job] :
            observed[job][n] \in completed_values(job, n)

\* C4 amended: every value a request reads is the value of a completed
\* snapshot or, before the first publish, the gauge's registration value 0
C4_ObservedIsCompletedOrInitial ==
    s_pc = "serving" =>
        \A job \in DOMAIN observed : \A n \in DOMAIN observed[job] :
            \/ observed[job][n] \in completed_values(job, n)
            \/ poll_counter = 0 /\ observed[job][n] = 0

C4_Witness ==
    /\ s_pc = "serving"
    /\ poll_counter = 2
    /\ "alpha" \in DOMAIN observed
    /\ observed["alpha"]["total"] = 1
    /\ observed["alpha"]["job_reqtime_ms"] = 12
    /\ handle.pc = "joined"

\* C5: once the publish step of a cycle is complete, every gauge of every
\* job holds the value of that cycle's snapshot, until the next publish
C5_PublishedEqualsSnapshot ==
    /\ main_pc \in {"inc_err", "inc_req", "inc_poll", "drop"} => GaugesHold(new_data)
    /\ (main_pc \in {"spawn", "sleep", "lock", "join"} /\ poll_counter > 0) =>
          GaugesHold(prev_data)

C5_Witness ==
    /\ main_pc = "drop"
    /\ poll_counter = 2
    /\ Len(opts.jobs) = 2
    /\ \A job \in JobSet : \A n \in GaugeNames \ {"unstable"} :
          new_data.gauges[job][n] # prev_data.gauges[job][n]
    /\ GaugesHold(new_data)

\* number of error responses in a sequence of responses
err_count(rs) == Cardinality({i \in 1..Len(rs) : rs[i].is_err})

\* C9: the snapshot get_all_gauge_data returns has req_counter = number of
\* configured jobs and req_err_counter = number of failed fetches, within
\* 0..req_counter
C9_SnapshotCounters ==
    handle.pc = "done" =>
        /\ handle.out.req_counter = Len(opts.jobs)
        /\ handle.out.req_err_counter = err_count(handle.responses)
        /\ 0 <= handle.out.req_err_counter
        /\ handle.out.req_err_counter <= handle.out.req_counter

C9_Witness ==
    /\ handle.pc = "done"
    /\ Len(opts.jobs) = 2
    /\ handle.responses[1].is_err
    /\ ~handle.responses[2].is_err
    /\ handle.out.req_err_counter = 1

\* C10: the job keys of the returned snapshot are the configured jobs
C10_SnapshotJobKeys ==
    handle.pc = "done" => DOMAIN handle.out.gauges = JobSet

C10_Witness ==
    /\ handle.pc = "done"
    /\ Len(opts.jobs) = 2
    /\ \A i \in 1..Len(handle.responses) : handle.responses[i].is_err
    /\ DOMAIN handle.out.gauges = {"alpha", "beta-1"}

\* C11: in the fetch thread every job fetched so far has the reduction of
\* its own response as its entry, all-zero when the response is an error,
\* whatever the other jobs' responses were; and the response at which a
\* thread ends without a snapshot is never an error
C11_FetchErrorIsolated ==
    /\ handle.pc \in {"running", "done", "panicked"} =>
          \A i \in 1..(handle.i - 1) :
              LET entry == handle.out.gauges[opts.jobs[i]]
                  r == handle.responses[i]
              IN /\ \A k \in DOMAIN zero_out :
                        entry[k] = calc_metrics(r, opts.last_builds)[k]
                 /\ r.is_err => \A k \in DOMAIN zero_out : entry[k] = 0
    /\ handle.pc = "panicked" => ~handle.responses[Len(handle.responses)].is_err

C11_Witness ==
    /\ handle.pc = "done"
    /\ Len(opts.jobs) = 2
    /\ ~handle.responses[1].is_err
    /\ handle.responses[2].is_err
    /\ handle.out.gauges["alpha"]["total"] = 2
    /\ handle.out.gauges["alpha"]["failure"] = 1
    /\ handle.out.gauges["beta-1"]["total"] = 0

\* the gauges as they were when the current publish step began: the
\* registration values in the first cycle, the previous snapshot's after it
gauges_before_publish ==
    IF handle.cycle = 1 THEN [job \in JobSet |-> [n \in GaugeNames |-> 0]]
    ELSE prev_data.gauges

\* C12: the gauges after the publish step are those of publishing the
\* snapshot once, and publishing the same snapshot a second time leaves them
\* as they are
C12_PublishIdempotent ==
    main_pc \in {"inc_err", "inc_req", "inc_poll", "drop"} =>
        LET n == Len(opts.jobs) * Len(gauge_info)
            once == publish(gauges_before_publish, new_data, opts.jobs, n)
            twice == publish(once, new_data, opts.jobs, n)
        IN /\ once = gauges
           /\ twice = once

C12_Witness ==
    /\ main_pc = "inc_err"
    /\ handle.cycle = 2
    /\ Len(opts.jobs) = 2
    /\ prev_data.gauges["alpha"]["job_reqtime_ms"] = 12
    /\ new_data.gauges["alpha"]["job_reqtime_ms"] = -1
    /\ new_data.gauges["beta-1"]["success"] = 1
    /\ gauges = new_data.gauges

\* C13: the scheduler loop has no terminal state: once the loop has spawned
\* its first fetch thread, and whatever the fetches return, the process is
\* never dead
C13_NoTerminalState ==
    handle.cycle >= 1 => main_pc # "panicked"

\* the request met a failure in the claim's sense: no response, a
\* non-success status, or an undecodable body
http_failed(h) == ~h.sent \/ h.status # 200 \/ ~h.json_ok

\* C14: a response with a non-success status is a fetch error for its job
\* whatever its body: the job's entry is all-zero and req_err_counter is
\* incremented, as for a network failure, a timeout or an undecodable body
C14_NonSuccessStatusIsError ==
    (f_pc = "inserted" /\ http_failed(f_http)) =>
        /\ \A k \in DOMAIN zero_out : f_out.gauges["alpha"][k] = 0
        /\ f_out.req_err_counter = 1

\* C15: a step that changes a gauge is taken only when no fetch thread is
\* running or waiting to be joined; when it is a write of the publish loops
\* the thread has been joined and new_data is the complete snapshot, with
\* an entry for every configured job
C15_WritesOnlyAfterJoin ==
    [][gauges' # gauges =>
          /\ handle.pc \in {"none", "joined"}
          /\ handle.pc = "joined" =>
                /\ main_pc = "publish"
                /\ DOMAIN new_data.gauges = JobSet
                /\ new_data.req_counter = Len(opts.jobs)]_vars

C15_Witness ==
    /\ main_pc = "publish"
    /\ handle.pc = "joined"
    /\ handle.cycle = 1
    /\ job_i = 2
    /\ gauge_i = 3
    /\ gauges["alpha"]["total"] = 1
    /\ gauges["beta-1"]["success"] = 1
    /\ gauges["beta-1"]["job_reqtime_ms"] = 0
    /\ new_data.gauges["beta-1"]["job_reqtime_ms"] = 12

\* C16: calc_metrics is total: on every history and window size, 0 and the
\* empty history included, it returns its map
C16_CalcMetricsTotal ==
    c_pc # "input" =>
        /\ c_pc = "returned"
        /\ DOMAIN c_out = {"total", "success", "failure", "unstable"}

\* the (job, gauge name) keys of main's gauges
GaugeKeys == UNION {{<<job, n>> : n \in DOMAIN gauges[job]} : job \in DOMAIN gauges}

\* the registration loops of lines 224-237 have run to their end
Registered == main_pc # "register" /\ (main_pc = "panicked" => handle.cycle >= 1)

\* C17: from the end of the registration on, through every publish step,
\* the keys of gauges are the configured jobs x the five gauge names
C17_KeySetFixed ==
    Registered => GaugeKeys = JobSet \X GaugeNames

C17_Witness ==
    /\ main_pc = "publish"
    /\ handle.cycle = 2
    /\ job_i = 2
    /\ gauge_i = 5
    /\ Cardinality(GaugeKeys) = 10
    /\ gauges["alpha"]["total"] = 2
    /\ prev_data.gauges["alpha"]["total"] = 0

\* C18: the snapshot a fetch thread returns holds the five gauge names for
\* every configured job, every lookup of the publish loops succeeds, and a
\* panic of main comes from the registration or from the join, never from
\* the publish loops
C18_LookupNeverFails ==
    /\ handle.pc = "done" =>
          \A job \in JobSet :
              job \in DOMAIN handle.out.gauges /\ DOMAIN handle.out.gauges[job] = GaugeNames
    /\ main_pc = "publish" =>
          \A job \in JobSet : \A n \in GaugeNames : lookup_ok(job, n)
    /\ main_pc = "panicked" => (handle.cycle = 0 \/ handle.pc = "panicked")

C18_Witness ==
    /\ main_pc = "publish"
    /\ Len(opts.jobs) = 2
    /\ job_i = 2
    /\ gauge_i = 5
    /\ new_data.req_err_counter = 2
    /\ new_data.gauges["beta-1"]["job_reqtime_ms"] = -1
    /\ gauges["beta-1"]["job_reqtime_ms"] = 0

\* C19: at the loop boundary after k cycles poll_counter = k, req_counter =
\* k x number of jobs, req_err_counter = number of failed fetches of the k
\* cycles <= req_counter; and no step decreases a counter
C19_ProcessCounters ==
    /\ [](main_pc = "spawn" =>
            /\ poll_counter = handle.cycle
            /\ req_counter = handle.cycle * Len(opts.jobs)
            /\ req_err_counter = handle.failed
            /\ req_err_counter <= req_counter)
    /\ [][/\ poll_counter' >= poll_counter
          /\ req_counter' >= req_counter
          /\ req_err_counter' >= req_err_counter]_vars

C19_Witness ==
    /\ main_pc = "spawn"
    /\ handle.cycle = 2
    /\ poll_counter = 2
    /\ req_counter = 4
    /\ req_err_counter = 3
    /\ prev_data.req_err_counter = 1

\* every job's gauges as observed are those of the one snapshot d
ObservedFrom(d) ==
    /\ DOMAIN observed = JobSet
    /\ \A job \in JobSet : job \in DOMAIN d.gauges /\ observed[job] = d.gauges[job]

\* C20: main holds the update lock throughout the publish step, and what a
\* request reads is, for all jobs together, one snapshot's values (or the
\* registration values before the first publish), never a mix of two cycles
C20_PublishUnderGuard ==
    /\ Publishing => update_lock = "main"
    /\ s_pc = "serving" =>
          IF poll_counter = 0
          THEN \A job \in DOMAIN observed : \A n \in DOMAIN observed[job] :
                  observed[job][n] = 0
          ELSE ObservedFrom(prev_data)

C20_Witness ==
    /\ s_pc = "serving"
    /\ poll_counter = 1
    /\ handle.pc = "running"
    /\ handle.cycle = 2
    /\ handle.i = 2
    /\ Len(opts.jobs) = 2
    /\ observed["alpha"]["total"] = 1
    /\ observed["beta-1"]["job_reqtime_ms"] = -1
    /\ handle.out.gauges["alpha"]["total"] = 0

====
